---- MODULE Spec2Model ----
(***************************************************************************)
(* Life-Boy: an interactive Conway's Game of Life for the Game Boy.        *)
(* A model of src/main.c: the toroidal neighbour wiring built at startup,  *)
(* the generation step, the cursor and the paused/running input loop.      *)
(* One step of the model is one iteration of the main loop (one tick).     *)
(***************************************************************************)
EXTENDS Integers, Sequences, FiniteSets

VARIABLES
    world,          \* Cell world[WIDTH][HEIGHT]: .state and .neighbors[8], as cell coordinates
    cell_states,    \* uint8_t cell_states[WIDTH][HEIGHT], as booleans
    sram,           \* the cartridge RAM at 0xa000: byte 0 is the marker, 1.. the cells
    cursor,         \* Cursor cursor: .x and .y (uint8_t)
    running,        \* bool running
    joypadPrev,     \* buttons held at the previous sample
    joypadCurr,     \* buttons held at the current sample
    fired,          \* the handlers this tick has run, in the order they ran
    lastMove,       \* the arguments of the most recent move_cursor call
    ticks,          \* the ticks a specification counts against its bound
    tiles,          \* the background tile last set at each cell's coordinate
    ramEnabled,     \* the cartridge RAM enable latch (ENABLE_RAM_MBC1 / DISABLE_RAM_MBC1)
    ramFault,       \* the cartridge RAM was accessed while disabled, or left
                    \* enabled into a generation step
    waited,         \* the tick just taken ended in vsync()
    booted          \* no tick has run since startup

vars == <<world, cell_states, sram, cursor, running, joypadPrev, joypadCurr,
          fired, lastMove, ticks, tiles, ramEnabled, ramFault, waited, booted>>

----------------------------------------------------------------------------
(* The grid.  main.c fixes WIDTH at 20 and HEIGHT at 18; the model keeps the
   code's arithmetic and checks it on a smaller torus, large enough for every
   cell to have 8 distinct neighbours and for a glider to travel freely. *)
WIDTH == 6
HEIGHT == 5

\* 's', 'L' and 'D' as byte values
MARK_SAVED == 115
BYTE_LIVE == 76
BYTE_DEAD == 68

(* The number of ticks followed where every button is in play *)
MaxTicks == 4

\* ticks a glider is followed for
MaxGens == 6

Cells == (0 .. WIDTH - 1) \X (0 .. HEIGHT - 1)

Buttons == {"B", "SELECT", "START", "A", "UP", "DOWN", "LEFT", "RIGHT"}

\* conversion of an int to uint8_t
UInt8(v) == v % 256

\* the offset of cell_states[x][y] (and of world[x][y]) in its array, in elements
FlatIndex(x, y) == x * HEIGHT + y

----------------------------------------------------------------------------
(* Startup: the topology, lines 86-101 *)

\* the (dx, dy) pairs in the order of the two nested loops, (0,0) skipped
Deltas ==
    << <<-1, -1>>, <<-1, 0>>, <<-1, 1>>, <<0, -1>>, <<0, 1>>, <<1, -1>>, <<1, 0>>, <<1, 1>> >>

\* NeighborAt with the edges clamped instead of wrapped
NeighborAtClamped(x, y, dx, dy) ==
    LET i == IF x + dx = -1 THEN 0
             ELSE IF x + dx = WIDTH THEN WIDTH - 1
             ELSE x + dx
        j == IF y + dy = -1 THEN 0
             ELSE IF y + dy = HEIGHT THEN HEIGHT - 1
             ELSE y + dy
    IN  <<i, j>>

\* &world[i][j] for the neighbour of (x, y) at offset (dx, dy)
NeighborAt(x, y, dx, dy) ==
    LET i == IF x + dx = -1 THEN WIDTH - 1
             ELSE IF x + dx = WIDTH THEN 0
             ELSE x + dx
        j == IF y + dy = -1 THEN HEIGHT - 1
             ELSE IF y + dy = HEIGHT THEN 0
             ELSE y + dy
    IN  <<i, j>>

InitCell(x, y) ==
    [ state |-> <<x, y>>,
      neighbors |-> [n \in 1 .. 8 |-> NeighborAt(x, y, Deltas[n][1], Deltas[n][2])] ]

InitWorld == [c \in Cells |-> InitCell(c[1], c[2])]

----------------------------------------------------------------------------
(* Startup: the saved cells, lines 79-111 *)

\* bool load_saved = saved[0] == 's'
LoadSaved(store) == store[0] = MARK_SAVED

\* the load loops nested the other way round: y outer, x inner
SavedAddrRowMajor(x, y) == 1 + y * WIDTH + x

\* the address, relative to 0xa000, that *s++ reads (and the save writes) for cell (x, y):
\* s starts at SAVED_STATES and advances once per cell, x outer and y inner
SavedAddr(x, y) == 1 + FlatIndex(x, y)

\* a load that takes every byte but 'D' for a live cell
LoadCellNotDead(store, x, y) ==
    IF LoadSaved(store) THEN store[SavedAddr(x, y)] # BYTE_DEAD ELSE FALSE

\* *world[x][y].state = load_saved ? (*s++ == 'L') : false
LoadCell(store, x, y) ==
    IF LoadSaved(store) THEN store[SavedAddr(x, y)] = BYTE_LIVE ELSE FALSE

LoadStates(store) == [c \in Cells |-> LoadCell(store, c[1], c[2])]

\* the tiles: LIVE and DEAD of tiles.h, the background TILEMAP of tilemap.h
\* (every cell drawn dead), and tile 3, the mark set_tile_xy(0,0,3) draws
TILE_LIVE == "LIVE"
TILE_DEAD == "DEAD"
TILE_MARK == "MARK"
TILEMAP == [c \in Cells |-> TILE_DEAD]

\* *world[x][y].state ? LIVE : DEAD
TileOf(alive) == IF alive THEN TILE_LIVE ELSE TILE_DEAD

\* second startup loop: set_tile_xy(x, y, ...) for every cell
DrawAll(cs) == [c \in Cells |-> TileOf(cs[c])]

(* The cartridge RAM contents the program may be started with *)

StoreOf(marker, liveCells, deadByte) ==
    [a \in 0 .. WIDTH * HEIGHT |->
        IF a = 0 THEN marker
        ELSE IF \E c \in liveCells : SavedAddr(c[1], c[2]) = a THEN BYTE_LIVE
        ELSE deadByte]

Glider(a, b) == {<<a + 1, b>>, <<a + 2, b + 1>>, <<a, b + 2>>, <<a + 1, b + 2>>, <<a + 2, b + 2>>}

\* a 2x2 block that straddles both wraps
CornerBlock == {<<WIDTH - 1, HEIGHT - 1>>, <<0, HEIGHT - 1>>, <<WIDTH - 1, 0>>, <<0, 0>>}

\* a blinker lying across the left/right wrap
EdgeBlinker == {<<WIDTH - 1, 2>>, <<0, 2>>, <<1, 2>>}

\* a byte that is neither 'L' nor 'D': the letter 'l'
ForeignByte == BYTE_LIVE + 32

StartStores ==
    { StoreOf(255, {}, 255),                            \* never saved, erased RAM
      StoreOf(BYTE_DEAD, Cells, BYTE_DEAD),             \* cells look live but no marker
      StoreOf(MARK_SAVED, {}, BYTE_DEAD),               \* saved, all dead
      StoreOf(MARK_SAVED, Cells, BYTE_DEAD),            \* saved, all live
      StoreOf(MARK_SAVED, Glider(1, 1), BYTE_DEAD),     \* saved glider
      StoreOf(MARK_SAVED, CornerBlock \cup EdgeBlinker, ForeignByte) } \* saved, foreign bytes

----------------------------------------------------------------------------
(* The cursor, lines 56-68 *)

\* move_cursor(&cursor, dx, dy): the comparisons are made on ints (the uint8_t
\* and int8_t operands are promoted), the result is stored back into a uint8_t
move_cursor(cur, dx, dy) ==
    LET ny == IF dy = -1
                THEN UInt8(IF cur.y + dy < HEIGHT THEN cur.y + dy ELSE HEIGHT + dy)
              ELSE IF dy = 1
                THEN UInt8(IF cur.y + dy < HEIGHT THEN cur.y + dy ELSE 0)
              ELSE cur.y
        nx == IF dx = -1
                THEN UInt8(IF cur.x + dx < WIDTH THEN cur.x + dx ELSE WIDTH + dx)
              ELSE IF dx = 1
                THEN UInt8(IF cur.x + dx < WIDTH THEN cur.x + dx ELSE 0)
              ELSE cur.x
    IN  [x |-> nx, y |-> ny]

\* cursor.x = WIDTH/2-1; cursor.y = HEIGHT/2-1
StartCursor == [x |-> (WIDTH \div 2) - 1, y |-> (HEIGHT \div 2) - 1]

----------------------------------------------------------------------------
(* The generation step, lines 48-53 and 211-227 *)

\* cell_neighbors(c): the number of the 8 neighbours whose *state is true
RECURSIVE CountFrom(_, _, _, _)
CountFrom(w, cs, c, i) ==
    IF i > 8 THEN 0
    ELSE (IF cs[w[w[c].neighbors[i]].state] THEN 1 ELSE 0) + CountFrom(w, cs, c, i + 1)

cell_neighbors(w, cs, c) == UInt8(CountFrom(w, cs, c, 1))

\* first loop: neighbors[x][y] = cell_neighbors(&world[x][y]) for every cell
CountAll(w, cs) == [c \in Cells |-> cell_neighbors(w, cs, c)]

\* the body of the second loop for one cell whose state is `alive` and count is n
\* a rule under which a live cell with two live neighbours dies as well
NextStateStrict(alive, n) ==
    IF alive /\ n # 3 THEN FALSE
    ELSE IF ~alive /\ n = 3 THEN TRUE
    ELSE alive

NextState(alive, n) ==
    IF alive /\ n # 2 /\ n # 3 THEN FALSE
    ELSE IF ~alive /\ n = 3 THEN TRUE
    ELSE alive

\* the cell the loops visit k-th, x outer and y inner
CellAt(k) == <<k \div HEIGHT, k % HEIGHT>>

\* second loop, from its k-th iteration on: *world[x][y].state is rewritten in
\* place from its current value and the stored count neighbors[x][y]
RECURSIVE ApplyFrom(_, _, _, _)
ApplyFrom(w, cs, neighbors, k) ==
    IF k = WIDTH * HEIGHT THEN cs
    ELSE LET c == CellAt(k)
             p == w[c].state
         IN  ApplyFrom(w, [cs EXCEPT ![p] = NextState(cs[p], neighbors[c])], neighbors, k + 1)

\* a single loop that counts and rewrites each cell in turn
RECURSIVE InPlaceFrom(_, _, _)
InPlaceFrom(w, cs, k) ==
    IF k = WIDTH * HEIGHT THEN cs
    ELSE LET c == CellAt(k)
             p == w[c].state
         IN  InPlaceFrom(w, [cs EXCEPT ![p] = NextState(cs[p], cell_neighbors(w, cs, c))], k + 1)

GenerationInPlace(w, cs) == InPlaceFrom(w, cs, 0)

\* one generation: all counts first, then all cells
Generation(w, cs) == ApplyFrom(w, cs, CountAll(w, cs), 0)

----------------------------------------------------------------------------
(* The paused-mode handlers, lines 161-201 *)

\* the clear loops stopping one row short
ClearStatesShort(cs) == [c \in Cells |-> IF c[2] = HEIGHT - 1 THEN cs[c] ELSE FALSE]

\* SELECT: cell_states[x][y] = false for every cell
ClearStates(cs) == [c \in Cells |-> FALSE]

\* the save loops nested the other way round: y outer, x inner
SaveStatesRowMajor(store, cs) ==
    [a \in 0 .. WIDTH * HEIGHT |->
        IF a = 0 THEN MARK_SAVED
        ELSE IF cs[<<(a - 1) % WIDTH, (a - 1) \div WIDTH>>] THEN BYTE_LIVE ELSE BYTE_DEAD]

\* START: *saved = 's', then one byte per cell through s++
SaveStates(store, cs) ==
    [a \in 0 .. WIDTH * HEIGHT |->
        IF a = 0 THEN MARK_SAVED
        ELSE IF cs[CellAt(a - 1)] THEN BYTE_LIVE ELSE BYTE_DEAD]

\* A: c = &world[cursor.x][cursor.y]; *c->state = !(*c->state).
\* The element address is computed from the flat index, whatever cursor.x and
\* cursor.y hold.  Inside the array the element is a cell and its state is
\* inverted.  Past the end of the array c->state is whatever bytes lie there:
\* the write may land on any cell state or on none of them.
ToggleOutcomes(w, cs, cur) ==
    LET k == FlatIndex(cur.x, cur.y)
    IN  IF k < WIDTH * HEIGHT
        THEN LET p == w[CellAt(k)].state IN {[cs EXCEPT ![p] = ~cs[p]]}
        ELSE {cs} \cup {[cs EXCEPT ![p] = ~cs[p]] : p \in Cells}

\* the (dx, dy) each direction button passes to move_cursor
MoveDelta(b) ==
    CASE b = "UP" -> <<0, -1>>
      [] b = "DOWN" -> <<0, 1>>
      [] b = "LEFT" -> <<-1, 0>>
      [] b = "RIGHT" -> <<1, 0>>

\* the data a tick works on
Mem(cs, store, cur, mv, tl, ram, fault) ==
    [cs |-> cs, sram |-> store, cursor |-> cur, lastMove |-> mv,
     tiles |-> tl, ram |-> ram, fault |-> fault]

\* ENABLE_RAM_MBC1 and DISABLE_RAM_MBC1
EnableRam(m) == [m EXCEPT !.ram = TRUE]

\* an access sequence that leaves the RAM enabled
DisableRamMissing(m) == m

DisableRam(m) == [m EXCEPT !.ram = FALSE]

\* the writes of the save loop: they reach the RAM only while it is enabled
WriteSave(m) ==
    IF m.ram THEN [m EXCEPT !.sram = SaveStates(m.sram, m.cs)]
    ELSE [m EXCEPT !.fault = TRUE]

\* START: lines 171-179
SaveHandler(m) ==
    [DisableRam(WriteSave(EnableRam(m))) EXCEPT !.tiles[<<0, 0>>] = TILE_MARK]

\* cursor.x and cursor.y name a cell of the grid
OnGrid(cur) == cur.x < WIDTH /\ cur.y < HEIGHT

\* A: lines 184-186; set_tile_xy(cursor.x, cursor.y, ...) draws the new state
\* at the cursor's coordinate, which is a cell's coordinate only on the grid
ToggleHandler(w, m) ==
    {[m EXCEPT !.cs = o,
               !.tiles = IF OnGrid(m.cursor)
                           THEN [m.tiles EXCEPT ![<<m.cursor.x, m.cursor.y>>] =
                                    TileOf(o[<<m.cursor.x, m.cursor.y>>])]
                           ELSE m.tiles] : o \in ToggleOutcomes(w, m.cs, m.cursor)}

\* the generation step: lines 212-227, each cell redrawn as it is rewritten
GenerationHandler(w, m) ==
    LET g == Generation(w, m.cs)
    IN  [m EXCEPT !.cs = g, !.tiles = DrawAll(g), !.fault = m.fault \/ m.ram]

\* the outcomes of running the handler of h on m
Handle(w, h, m) ==
    CASE h = "SELECT" -> {[m EXCEPT !.tiles = TILEMAP, !.cs = ClearStates(m.cs)]}
      [] h = "START" -> {SaveHandler(m)}
      [] h = "A" -> ToggleHandler(w, m)
      [] h \in {"UP", "DOWN", "LEFT", "RIGHT"} ->
            LET d == MoveDelta(h)
            IN  {[m EXCEPT !.cursor = move_cursor(m.cursor, d[1], d[2]),
                           !.lastMove = [from |-> m.cursor, dx |-> d[1], dy |-> d[2]]]}
      [] h = "GEN" -> {GenerationHandler(w, m)}
      [] h = "B" -> {m}

\* the outcomes of running the handlers of hs one after the other
RECURSIVE HandleAll(_, _, _)
HandleAll(w, hs, m) ==
    IF hs = <<>> THEN {m}
    ELSE UNION {HandleAll(w, Tail(hs), n) : n \in Handle(w, Head(hs), m)}

----------------------------------------------------------------------------
(* The main loop, lines 146-231 *)

\* level sensing: the button is down
PressedHeld(b, curr, prev) == b \in curr

\* any change of the button, release included
PressedChanged(b, curr, prev) == (b \in curr) # (b \in prev)

\* (joypadCurr & J_x) && !(joypadPrev & J_x)
Pressed(b, curr, prev) == b \in curr /\ b \notin prev

\* the order of the if statements of the paused branch after the B test
PausedOrder == <<"SELECT", "START", "A", "UP", "DOWN", "LEFT", "RIGHT">>

RECURSIVE PressedOf(_, _, _)
PressedOf(order, curr, prev) ==
    IF order = <<>> THEN <<>>
    ELSE (IF Pressed(Head(order), curr, prev) THEN <<Head(order)>> ELSE <<>>)
         \o PressedOf(Tail(order), curr, prev)

\* the paused branch with the continue left out
PausedDispatchFallThrough(curr, prev) ==
    (IF Pressed("B", curr, prev) THEN <<"B">> ELSE <<>>) \o PressedOf(PausedOrder, curr, prev)

\* the running branch reading the edit buttons as well
RunningDispatchEdits(curr, prev) ==
    IF Pressed("B", curr, prev) THEN <<"B">>
    ELSE PressedOf(PausedOrder, curr, prev) \o <<"GEN">>

\* the handlers a paused tick runs: B alone (the continue skips the rest),
\* otherwise every handler whose button is newly pressed, in source order
PausedDispatch(curr, prev) ==
    IF Pressed("B", curr, prev) THEN <<"B">> ELSE PressedOf(PausedOrder, curr, prev)

\* the handlers a running tick runs: B alone, otherwise the generation step
RunningDispatch(curr, prev) ==
    IF Pressed("B", curr, prev) THEN <<"B">> ELSE <<"GEN">>

\* the mode following any handler at all
ModeAfterAny(run, hs) == IF hs # <<>> /\ Head(hs) # "GEN" THEN ~run ELSE run

\* running = !running in the B handler
ModeAfter(run, hs) == IF hs # <<>> /\ Head(hs) = "B" THEN ~run ELSE run

\* the tick reaches the vsync() at the bottom of the loop: the continue of
\* the B handlers jumps over it
ReachesVsync(hs) == ~(hs # <<>> /\ Head(hs) = "B")

\* one iteration of the loop with joypad() returning j
Tick(j, hs) ==
    /\ joypadPrev' = joypadCurr
    /\ joypadCurr' = j
    /\ fired' = hs
    /\ running' = ModeAfter(running, hs)
    /\ waited' = ReachesVsync(hs)
    /\ booted' = FALSE
    /\ \E m \in HandleAll(world, hs,
                  Mem(cell_states, sram, cursor, lastMove, tiles, ramEnabled, ramFault)) :
          /\ cell_states' = m.cs
          /\ sram' = m.sram
          /\ cursor' = m.cursor
          /\ lastMove' = m.lastMove
          /\ tiles' = m.tiles
          /\ ramEnabled' = m.ram
          /\ ramFault' = m.fault
    /\ UNCHANGED world

PausedTick(j) == ~running /\ Tick(j, PausedDispatch(j, joypadCurr))

RunningTick(j) == running /\ Tick(j, RunningDispatch(j, joypadCurr))

----------------------------------------------------------------------------
(* Specifications *)

\* lines 79-111: the marker and the cells are read between ENABLE_RAM_MBC1
\* and DISABLE_RAM_MBC1; m carries the RAM and its latch as found at power-on
StartupLoad(m) ==
    LET e == EnableRam(m)
        l == IF e.ram THEN [e EXCEPT !.cs = LoadStates(e.sram)]
             ELSE [e EXCEPT !.fault = TRUE]
    IN  DisableRam(l)

\* cell_states before the load loop has assigned it (every cell is assigned)
Unloaded == [c \in Cells |-> FALSE]

\* main() up to the loop, started on the cartridge RAM `store`: the state in
\* which the loop is entered
Startup(store) ==
    LET m == StartupLoad(Mem(Unloaded, store, StartCursor,
                             [from |-> StartCursor, dx |-> 0, dy |-> 0],
                             TILEMAP, FALSE, FALSE))
    IN  [world |-> InitWorld,
         sram |-> m.sram,
         cell_states |-> m.cs,
         tiles |-> DrawAll(m.cs),
         ramEnabled |-> m.ram,
         ramFault |-> m.fault,
         cursor |-> move_cursor(StartCursor, 0, 0),
         lastMove |-> m.lastMove,
         running |-> FALSE,
         joypadPrev |-> {},
         joypadCurr |-> {},
         fired |-> <<>>,
         waited |-> FALSE,
         booted |-> TRUE]

Init ==
    /\ sram \in StartStores
    /\ LET s == Startup(sram)
       IN  /\ world = s.world
           /\ sram = s.sram
           /\ cell_states = s.cell_states
           /\ tiles = s.tiles
           /\ ramEnabled = s.ramEnabled
           /\ ramFault = s.ramFault
           /\ cursor = s.cursor
           /\ lastMove = s.lastMove
           /\ running = s.running
           /\ joypadPrev = s.joypadPrev
           /\ joypadCurr = s.joypadCurr
           /\ fired = s.fired
           /\ waited = s.waited
           /\ booted = s.booted
    /\ ticks = 0

\* power off and on again: main() starts over on the cartridge RAM as it is
PowerCycle ==
    LET s == Startup(sram)
    IN  /\ world' = s.world
        /\ sram' = s.sram
        /\ cell_states' = s.cell_states
        /\ tiles' = s.tiles
        /\ ramEnabled' = s.ramEnabled
        /\ ramFault' = s.ramFault
        /\ cursor' = s.cursor
        /\ lastMove' = s.lastMove
        /\ running' = s.running
        /\ joypadPrev' = s.joypadPrev
        /\ joypadCurr' = s.joypadCurr
        /\ fired' = s.fired
        /\ waited' = s.waited
        /\ booted' = s.booted

\* what joypad() may return
Inputs ==
    { {}, {"B"}, {"A"}, {"SELECT"}, {"START"}, {"UP"},
      {"B", "SELECT", "START", "UP"}, {"SELECT", "START"}, {"START", "A"},
      {"UP", "DOWN"}, {"LEFT", "RIGHT"}, {"A", "RIGHT"} }

\* a tick that is counted against MaxTicks
Counted == ticks < MaxTicks /\ ticks' = ticks + 1

PausedStep == Counted /\ \E j \in Inputs : PausedTick(j)

RunningStep == Counted /\ \E j \in Inputs : RunningTick(j)

Next == PausedStep \/ RunningStep

Spec == Init /\ [][Next]_vars

\* a player who only works the d-pad, for as long as they like
CursorInputs == { {}, {"UP"}, {"DOWN"}, {"LEFT"}, {"RIGHT"}, {"UP", "LEFT"} }

CursorStep == UNCHANGED ticks /\ \E j \in CursorInputs : PausedTick(j)

NextCursor == CursorStep

SpecCursor == Init /\ [][NextCursor]_vars

\* a player who edits and saves, and a console that may be switched off and on
RestartInputs ==
    { {}, {"A"}, {"START"}, {"SELECT", "START"}, {"START", "A"}, {"B"}, {"A", "RIGHT"} }

RestartPaused == Counted /\ \E j \in RestartInputs : PausedTick(j)

RestartRunning == Counted /\ \E j \in RestartInputs : RunningTick(j)

Reboot == Counted /\ PowerCycle

NextRestart == RestartPaused \/ RestartRunning \/ Reboot

SpecRestart == Init /\ [][NextRestart]_vars

\* a glider saved at any anchor that keeps it clear of the array's last row and column
GliderStores ==
    { StoreOf(MARK_SAVED, Glider(a, b), BYTE_DEAD) : a \in 0 .. WIDTH - 3, b \in 0 .. HEIGHT - 3 }

InitGlider ==
    /\ sram \in GliderStores
    /\ LET s == Startup(sram)
       IN  /\ world = s.world
           /\ sram = s.sram
           /\ cell_states = s.cell_states
           /\ tiles = s.tiles
           /\ ramEnabled = s.ramEnabled
           /\ ramFault = s.ramFault
           /\ cursor = s.cursor
           /\ lastMove = s.lastMove
           /\ running = s.running
           /\ joypadPrev = s.joypadPrev
           /\ joypadCurr = s.joypadCurr
           /\ fired = s.fired
           /\ waited = s.waited
           /\ booted = s.booted
    /\ ticks = 0

GliderCounted == ticks < MaxGens /\ ticks' = ticks + 1

\* the player starts the simulation with B on the first tick
GliderStart == ticks = 0 /\ GliderCounted /\ PausedTick({"B"})

\* and then lets it run; A and the d-pad do nothing while it runs
GliderInputs == { {}, {"A"}, {"UP"} }

GliderGen == GliderCounted /\ \E j \in GliderInputs : RunningTick(j)

NextGlider == GliderStart \/ GliderGen

SpecGlider == InitGlider /\ [][NextGlider]_vars

----------------------------------------------------------------------------
(* Notions the properties share *)

InBounds(cur) == cur.x \in 0 .. WIDTH - 1 /\ cur.y \in 0 .. HEIGHT - 1

\* the buttons with a press-edge on the tick just taken
Edges == joypadCurr \ joypadPrev

\* b has a press-edge on the tick just taken: down at this sample, up at the last
NewlyDown(b) == b \in joypadCurr /\ b \notin joypadPrev

\* the handlers the tick just taken ran, as a set
FiredSet == {fired[i] : i \in 1 .. Len(fired)}

\* how many times the tick just taken ran the handler of h
TimesFired(h) == Cardinality({i \in 1 .. Len(fired) : fired[i] = h})

----------------------------------------------------------------------------
(* The cursor *)

\* C1: in every reachable state the cursor lies on the grid:
\* 0 <= cursor.x < WIDTH and 0 <= cursor.y < HEIGHT.
C1_CursorInBounds == InBounds(cursor)

\* C2: a move_cursor(dx, dy) call made from an in-bounds position leaves the
\* cursor at ((x + dx) mod WIDTH, (y + dy) mod HEIGHT).
C2_MoveIsModular ==
    InBounds(lastMove.from) =>
        cursor = [x |-> (lastMove.from.x + lastMove.dx) % WIDTH,
                  y |-> (lastMove.from.y + lastMove.dy) % HEIGHT]

----------------------------------------------------------------------------
(* The torus and the rule, stated without the code's wiring *)

Offsets == ({-1, 0, 1} \X {-1, 0, 1}) \ {<<0, 0>>}

Torus(c) == {<<(c[1] + d[1]) % WIDTH, (c[2] + d[2]) % HEIGHT>> : d \in Offsets}

LiveAround(G, c) == Cardinality({d \in Torus(c) : G[d]})

Conway(G) ==
    [c \in Cells |->
        LET n == LiveAround(G, c)
        IN  IF G[c] /\ n \notin {2, 3} THEN FALSE
            ELSE IF ~G[c] /\ n = 3 THEN TRUE
            ELSE G[c]]

\* C3: a Running tick with no B press-edge replaces the grid G by the grid in
\* which every cell follows Conway's rule on its count of live toroidal
\* neighbours in G itself (counts never see an already-updated neighbour).
C3_GenerationRule ==
    [][(running /\ ~NewlyDown("B")')
            => cell_states' = Conway(cell_states)]_vars

\* a generation has run on the pattern that lies across the wraps, with
\* births and deaths
C3_Witness ==
    /\ fired = <<"GEN">>
    /\ sram = StoreOf(MARK_SAVED, CornerBlock \cup EdgeBlinker, ForeignByte)
    /\ \E c \in Cells : cell_states[c] /\ ~LoadStates(sram)[c]
    /\ \E c \in Cells : ~cell_states[c] /\ LoadStates(sram)[c]

NeighborSet(w, c) == {w[c].neighbors[i] : i \in 1 .. 8}

TopologyOK(w) ==
    \A c \in Cells :
        /\ DOMAIN w[c].neighbors = 1 .. 8
        /\ \A i, k \in 1 .. 8 : i # k => w[c].neighbors[i] # w[c].neighbors[k]
        /\ NeighborSet(w, c) \subseteq Cells
        /\ NeighborSet(w, c) = Torus(c)
        /\ c \notin NeighborSet(w, c)
        /\ \A d \in NeighborSet(w, c) : c \in NeighborSet(w, d)

\* C4: after startup every cell has exactly 8 pairwise distinct in-bounds
\* neighbours, the cells at the 8 toroidal offsets; no cell neighbours itself,
\* the relation is symmetric; and no tick ever changes it (so it stays so).
C4_Topology == TopologyOK(world) /\ [][world' = world]_vars

\* ticks have run, among them a generation, on a wired torus whose corner cell
\* reaches across both wraps
C4_Witness ==
    /\ ticks = MaxTicks
    /\ fired = <<"GEN">>
    /\ <<WIDTH - 1, HEIGHT - 1>> \in NeighborSet(world, <<0, 0>>)
    /\ <<0, 0>> \in NeighborSet(world, <<WIDTH - 1, HEIGHT - 1>>)

----------------------------------------------------------------------------
(* Edge-triggered input *)

\* how many times a tick that ran the handlers f ran the handler of h
Times(f, h) == Cardinality({i \in 1 .. Len(f) : f[i] = h})

\* C5 as stated: on a tick where a button is down its action runs once if the
\* tick is the button's press-edge and not at all otherwise, so a hold of N
\* ticks runs it exactly once, on the first tick.
C5_FiresOncePerHold ==
    \A b \in joypadCurr : TimesFired(b) = IF b \in Edges THEN 1 ELSE 0

\* C5, amended: during a hold the action runs at most once and only on the
\* press-edge tick; it runs there exactly once if the button is B, or if that
\* tick begins Paused and has no B press-edge, and otherwise never runs.
C5_FiresOnceWhenRead ==
    [][\A b \in joypadCurr' :
          Times(fired', b) =
            IF /\ NewlyDown(b)'
               /\ \/ b = "B"
                  \/ ~running /\ ~NewlyDown("B")'
            THEN 1 ELSE 0]_vars

\* A has been held over two Paused ticks and the cell under the cursor was
\* inverted once
C5_Witness ==
    /\ ticks = 2
    /\ ~running
    /\ joypadPrev = {"A"}
    /\ joypadCurr = {"A"}
    /\ fired = <<>>
    /\ cell_states[<<cursor.x, cursor.y>>] # LoadStates(sram)[<<cursor.x, cursor.y>>]

\* C6: a handler runs, and the state it writes changes, only on a tick with a
\* press-edge of its button (down now, up at the previous sample).
C6_OnlyOnPressEdge ==
    [][LET edge(b) == NewlyDown(b)'
       IN  /\ \A b \in Buttons : Times(fired', b) > 0 => edge(b)
           /\ running' # running => edge("B")
           /\ sram' # sram => edge("START")
           /\ cursor' # cursor => \E b \in {"UP", "DOWN", "LEFT", "RIGHT"} : edge(b)
           /\ (~running /\ cell_states' # cell_states) => (edge("A") \/ edge("SELECT"))]_vars

\* after a Running-to-Paused toggle with SELECT and START down, they are
\* still down on the next (Paused) tick and nothing is cleared or saved
C6_Witness ==
    /\ ticks = 4
    /\ ~running
    /\ joypadPrev = {"B", "SELECT", "START", "UP"}
    /\ joypadCurr = {"SELECT", "START"}
    /\ fired = <<>>
    /\ \E c \in Cells : cell_states[c]

----------------------------------------------------------------------------
(* The mode *)

\* C7: on a tick with a B press-edge, in either mode, the mode flips and
\* nothing else happens: no generation step, no edit, no save, no cursor move,
\* whatever else is pressed.
C7_ToggleTickOnlyFlips ==
    [][NewlyDown("B")' =>
          /\ running' = ~running
          /\ fired' = <<"B">>
          /\ cell_states' = cell_states
          /\ cursor' = cursor
          /\ sram' = sram]_vars

\* B was newly pressed together with SELECT, START and UP while cells were live
C7_Witness ==
    /\ fired = <<"B">>
    /\ joypadCurr = {"B", "SELECT", "START", "UP"}
    /\ joypadPrev = {}
    /\ \E c \in Cells : cell_states[c]
    /\ sram[0] # MARK_SAVED

\* no two consecutive ticks both toggle the mode: the tick after a press-edge
\* of B samples B either still down or released, never newly pressed
NoBackToBackToggle == [][~(fired = <<"B">> /\ fired' = <<"B">>)]_vars

\* C9: the mode is Paused at startup, and a tick changes it exactly when the
\* tick has a B press-edge.
C9_ModeFollowsB ==
    /\ running = FALSE
    /\ [][(running' # running) <=> NewlyDown("B")']_vars

\* the mode went to Running and back to Paused, and later ticks with other
\* buttons left it there
C9_Witness ==
    /\ ticks = 4
    /\ ~running
    /\ joypadPrev = {"B"}
    /\ fired = <<"SELECT", "START">>

\* C10: a tick that starts Running leaves the cursor and the store alone and
\* changes the grid by the generation rule only (not at all on a B
\* press-edge), whatever the other buttons do.
C10_RunningIgnoresEdits ==
    [][running =>
          /\ cursor' = cursor
          /\ sram' = sram
          /\ cell_states' = IF NewlyDown("B")'
                              THEN cell_states
                              ELSE Conway(cell_states)]_vars

\* SELECT and START were newly pressed on a Running tick with live cells and
\* nothing was cleared or saved
C10_Witness ==
    /\ fired = <<"GEN">>
    /\ joypadCurr = {"SELECT", "START"}
    /\ joypadPrev = {}
    /\ sram = StoreOf(MARK_SAVED, Glider(1, 1), BYTE_DEAD)
    /\ cell_states # LoadStates(sram)
    /\ \E c \in Cells : cell_states[c]

----------------------------------------------------------------------------
(* The paused-mode edits *)

AllDead == [c \in Cells |-> FALSE]

\* G with the state of cell c inverted
Flipped(G, c) == [d \in Cells |-> IF d = c THEN ~G[d] ELSE G[d]]

\* the grid the later handlers of a Paused tick start from: cleared if SELECT
\* is newly down on the tick being taken
AfterClear == IF NewlyDown("SELECT")' THEN AllDead ELSE cell_states

DirectionNewlyDown == \E b \in {"UP", "DOWN", "LEFT", "RIGHT"} : NewlyDown(b)

\* C11: on a Paused tick with an A press-edge and no B press-edge the cell
\* written is a cell of the grid, the one under the cursor; its state is
\* inverted and every other cell keeps its state; the toggle changes neither
\* the mode, nor the cursor, nor the store.
C11_ToggleAtCursor ==
    [][(~running /\ NewlyDown("A")' /\ ~NewlyDown("B")') =>
          /\ InBounds(cursor)
          /\ cell_states' = Flipped(AfterClear, <<cursor.x, cursor.y>>)
          /\ running' = running
          /\ ~DirectionNewlyDown' => cursor' = cursor
          /\ ~NewlyDown("START")' => sram' = sram]_vars

\* C12: on a Paused tick with a SELECT press-edge and no B press-edge the
\* clear leaves every cell dead, and changes neither the mode, nor the cursor,
\* nor the store (a cell is live afterwards only through A, the cursor moves
\* only through a direction and the store changes only through START, newly
\* down on the same tick).
C12_ClearKillsAll ==
    [][(~running /\ NewlyDown("SELECT")' /\ ~NewlyDown("B")') =>
          /\ ~NewlyDown("A")' => \A c \in Cells : ~cell_states'[c]
          /\ running' = running
          /\ ~DirectionNewlyDown' => cursor' = cursor
          /\ ~NewlyDown("START")' => sram' = sram]_vars

\* SELECT alone was pressed on the grid loaded all live, and no cell is live
C12_Witness ==
    /\ ticks = 1
    /\ fired = <<"SELECT">>
    /\ sram = StoreOf(MARK_SAVED, Cells, BYTE_DEAD)
    /\ \A c \in Cells : ~cell_states[c]
    /\ ~running
    /\ cursor = StartCursor

----------------------------------------------------------------------------
(* The persisted snapshot *)

\* store is the snapshot of grid G: 's' at address 0 and, for every cell
\* (x, y), 'L' or 'D' at address 1 + x*HEIGHT + y; no other address exists
IsSnapshot(store, G) ==
    /\ DOMAIN store = 0 .. WIDTH * HEIGHT
    /\ store[0] = MARK_SAVED
    /\ \A c \in Cells :
          store[1 + c[1] * HEIGHT + c[2]] = IF G[c] THEN BYTE_LIVE ELSE BYTE_DEAD

\* C13: on a Paused tick with a START press-edge and no B press-edge the
\* store becomes the snapshot of the grid ('s', then 'L'/'D' per cell, x outer
\* and y inner, addresses 0..WIDTH*HEIGHT), and the save changes neither the
\* grid, nor the cursor, nor the mode; on every other tick the store is not
\* written.
C13_SaveWritesSnapshot ==
    [][IF ~running /\ NewlyDown("START")' /\ ~NewlyDown("B")'
       THEN /\ IsSnapshot(sram', AfterClear)
            /\ running' = running
            /\ (~NewlyDown("A")' /\ ~NewlyDown("SELECT")') => cell_states' = cell_states
            /\ ~DirectionNewlyDown' => cursor' = cursor
       ELSE sram' = sram]_vars

\* one cell was made live on an empty grid and START then saved it
C13_Witness ==
    /\ ticks = 2
    /\ fired = <<"START">>
    /\ cell_states = Flipped(AllDead, <<StartCursor.x, StartCursor.y>>)
    /\ sram[0] = MARK_SAVED
    /\ sram[1 + StartCursor.x * HEIGHT + StartCursor.y] = BYTE_LIVE
    /\ sram[1] = BYTE_DEAD

\* the last handler the tick just taken ran was the save
SaveRanLast == fired # <<>> /\ fired[Len(fired)] = "START"

\* C14: round trip: when the grid G has just been saved and the program is
\* started again on the resulting store, the grid it loads equals G at every
\* cell.
C14_RoundTrip == [][(SaveRanLast /\ booted') => cell_states' = cell_states]_vars

\* the saved glider was edited, saved and reloaded by a restart: the loaded
\* grid is the edited one, which no store the program started from holds
C14_Witness ==
    /\ booted
    /\ ticks = 3
    /\ cell_states = Flipped([c \in Cells |-> c \in Glider(1, 1)], <<StartCursor.x, StartCursor.y>>)
    /\ IsSnapshot(sram, cell_states)

\* the grid a store decodes to: all dead without the marker, else live
\* exactly where the cell's byte is 'L'
Decoded(store) ==
    [c \in Cells |-> store[0] = MARK_SAVED /\ store[1 + c[1] * HEIGHT + c[2]] = BYTE_LIVE]

\* C15: startup loads any store: without 's' at address 0 every cell starts
\* dead, with it a cell starts live exactly if its byte is 'L' (any other
\* byte, not only 'D', is dead); and startup never writes the store.
C15_LoadIsTotal ==
    /\ [](booted => cell_states = Decoded(sram))
    /\ [][booted' => sram' = sram]_vars

\* the program started on a marked store full of foreign bytes: the 'L' cells
\* are live and the foreign ones dead
C15_Witness ==
    /\ booted
    /\ sram[0] = MARK_SAVED
    /\ sram[1 + 1 * HEIGHT + 1] = ForeignByte
    /\ ~cell_states[<<1, 1>>]
    /\ sram[1] = BYTE_LIVE
    /\ cell_states[<<0, 0>>]

\* the five cells of the glider anchored at (a, b)
GliderAt(a, b) == {<<a + 1, b>>, <<a + 2, b + 1>>, <<a, b + 2>>, <<a + 1, b + 2>>, <<a + 2, b + 2>>}

\* anchors whose glider, and its translate by (+1,+1), lie on the grid without wrapping
MarginAnchors == (0 .. WIDTH - 4) \X (0 .. HEIGHT - 4)

\* the store the run started from holds exactly the glider anchored at p
SeededAt(p) == IsSnapshot(sram, [c \in Cells |-> c \in GliderAt(p[1], p[2])])

\* one tick started the simulation and four generation ticks followed
FourGenerations == running /\ ticks = 1 + 4 /\ fired = <<"GEN">>

\* C16: glider: from a grid whose only live cells are the glider anchored at
\* (a, b), four consecutive generation steps give the grid whose only live
\* cells are the glider anchored at (a+1, b+1).
C16_GliderTranslates ==
    \A p \in MarginAnchors :
        (SeededAt(p) /\ FourGenerations) =>
            cell_states = [c \in Cells |-> c \in GliderAt(p[1] + 1, p[2] + 1)]

\* the glider seeded at (0, 0) after its four generations
C16_Witness ==
    /\ SeededAt(<<0, 0>>)
    /\ FourGenerations
    /\ \A c \in Cells : cell_states[c] <=> c \in {<<2, 1>>, <<3, 2>>, <<1, 3>>, <<2, 3>>, <<3, 3>>}

\* the generation steps the tick just taken ran
GenerationSteps == Cardinality({i \in DOMAIN fired : fired[i] = "GEN"})

\* C17: every tick samples the input once, dispatches, runs at most one
\* generation step and then waits for the next display refresh, so a refresh
\* wait lies between any two consecutive input samples, also on a tick that
\* toggles the mode.
C17_TickEndsWithWait == ~booted => (GenerationSteps <= 1 /\ waited)

\* C18: every read or write of the store (the startup marker check and load,
\* the save) happens while store access is enabled, and access is disabled
\* again before the sequence ends: it is disabled when the loop is entered, at
\* every input sample, during every generation step and at every refresh wait.
C18_AccessWindowClosed == ~ramEnabled /\ ~ramFault

\* a save has just run on the first tick and the store is closed again
C18_Witness ==
    /\ ticks = 1
    /\ fired = <<"START">>
    /\ sram[0] = MARK_SAVED
    /\ ~ramEnabled
    /\ ~ramFault

\* C19: display consistency: at the end of startup and of every tick, the
\* visual last sent for each cell's coordinate is LIVE if the cell is live and
\* DEAD if it is dead (the clear's tile-map reset counting as DEAD everywhere),
\* after every action, the save's marker write at (0,0) included.
C19_DisplayMatchesGrid ==
    \A c \in Cells : tiles[c] = IF cell_states[c] THEN TILE_LIVE ELSE TILE_DEAD

\* the order in which the paused branch tests the buttons
TestOrder == <<"SELECT", "START", "A", "UP", "DOWN", "LEFT", "RIGHT">>

\* a paused tick without a B press-edge is being taken
PausedEditTick == ~running /\ ~NewlyDown("B")' /\ joypadPrev' = joypadCurr

\* the handlers run are those of the newly pressed buttons, in the test order
RanInOrder ==
    /\ \A i \in DOMAIN fired' : \E k \in DOMAIN TestOrder : fired'[i] = TestOrder[k]
    /\ \A k \in DOMAIN TestOrder :
          NewlyDown(TestOrder[k])' <=> \E i \in DOMAIN fired' : fired'[i] = TestOrder[k]
    /\ \A i, j \in DOMAIN fired' :
          i < j => \E k, l \in DOMAIN TestOrder :
                      k < l /\ fired'[i] = TestOrder[k] /\ fired'[j] = TestOrder[l]

\* what the order implies for the buttons pressed together
OrderEffects(toggleHits) ==
    /\ (NewlyDown("SELECT")' /\ NewlyDown("START")') => IsSnapshot(sram', AllDead)
    /\ (NewlyDown("START")' /\ NewlyDown("A")' /\ ~NewlyDown("SELECT")') =>
          IsSnapshot(sram', cell_states)
    /\ (NewlyDown("A")' /\ toggleHits) =>
          cell_states' = Flipped(AfterClear, <<cursor.x, cursor.y>>)
    /\ (NewlyDown("UP")' /\ NewlyDown("DOWN")' /\ 0 < cursor.y /\ cursor.y < HEIGHT - 1) =>
          cursor'.y = cursor.y
    /\ (NewlyDown("LEFT")' /\ NewlyDown("RIGHT")' /\ 0 < cursor.x /\ cursor.x < WIDTH - 1) =>
          cursor'.x = cursor.x

\* C20: in a paused tick without a B press-edge the handlers of the newly
\* pressed buttons run in the order clear, save, toggle, Up, Down, Left, Right:
\* SELECT with START saves an all-dead snapshot, START with A saves the grid
\* as it was before the toggle, A toggles the cell at the cursor position held
\* before the tick's moves, and Up with Down (Left with Right) from an interior
\* position leave the cursor where it was.
C20_HandlerOrder == [][PausedEditTick => (RanInOrder /\ OrderEffects(TRUE))]_vars

\* the same with the toggle looked at only while the cursor is on the grid
OrderWithCursorOnGrid ==
    [][PausedEditTick => (RanInOrder /\ OrderEffects(InBounds(cursor)))]_vars

====
